---- MODULE Spec2Model ----
(***************************************************************************)
(* Model of the level registry of ondi/log_go (src/logger.go) and of the   *)
(* setup glue (src/setup.go).                                              *)
(*                                                                         *)
(* log_t.out is an array of five atomic pointers, one per level slot; each *)
(* points to a writers_t map (name -> Writer) on the Go heap.  out[i] is   *)
(* the map the slot's pointer refers to at present.  A goroutine that has  *)
(* loaded a slot's pointer p keeps, in cur, whether p is still the pointer *)
(* the slot holds: every store or successful swap puts a newly allocated   *)
(* object into the slot, and the garbage collector never reuses the        *)
(* address of an object somebody still refers to, so                       *)
(* CompareAndSwapPointer(value, p, new) succeeds exactly when no pointer   *)
(* was put into the slot since p was loaded.  A dispatch keeps, in snap,   *)
(* the map its pointer refers to, and ranges over that.                    *)
(***************************************************************************)
EXTENDS Integers, Sequences, FiniteSets, TLC

\* ------------------------------------------------------------------ bounds
\* Number of registry calls the free-running processes may start in total.
MaxOps == 2

\* Length of the list of entries passed to SetupLogger.
MaxLogs == 2

\* ------------------------------------------------------------ the program
\* len(log_t.out)
NumLevels == 5

Slots == 0 .. (NumLevels - 1)

LOG_TRACE == [Name |-> "TRACE", Levels |-> <<0, 1, 2, 3, 4>>]
LOG_DEBUG == [Name |-> "DEBUG", Levels |-> <<1, 2, 3, 4>>]
LOG_INFO == [Name |-> "INFO", Levels |-> <<2, 3, 4>>]
LOG_WARN == [Name |-> "WARN", Levels |-> <<3, 4>>]
LOG_ERROR == [Name |-> "ERROR", Levels |-> <<4>>]

\* The five severities in increasing order; Severities[k] has rank k - 1.
Severities == <<LOG_TRACE, LOG_DEBUG, LOG_INFO, LOG_WARN, LOG_ERROR>>

Ranks == 1 .. Len(Severities)

\* Sink names, sink handles (Writer values) and the goroutines of the model.
Names == {"a", "b"}

Writers == {"w1", "w2"}

Procs == {"p1", "p2"}

\* A nil Writer / an absent key of a writers_t map.
Nil == "nil"

\* writers_t{}: a map as a total function, Nil for an absent key.
EmptyMap == [n \in Names |-> Nil]

Keys(m) == {n \in Names : m[n] # Nil}

Values(m) == {m[n] : n \in Keys(m)}

SeqToSet(s) == {s[i] : i \in 1 .. Len(s)}

VARIABLES
    out,         \* log_t.out: slot -> the writers_t its pointer refers to
    pc,          \* goroutine -> position in the call it runs
    op,          \* goroutine -> the call it runs
    idx,         \* goroutine -> loop index of AddOutput / DelOutput / Clear
    cur,         \* goroutine -> the pointer p it loaded is still the one in the slot
    temp,        \* goroutine -> temp, the map it builds
    found,       \* goroutine -> writer, the value del_output found under name
    snap,        \* goroutine -> the map a dispatch loaded and ranges over
    visited,     \* goroutine -> keys the range loop of a dispatch has visited
    seen,        \* goroutine -> what the slot's map held at the load of a dispatch
    closedAtLoad,\* goroutine -> sinks already closed when its dispatch loaded
    closed,      \* sink -> Close was called on it since it was last registered
    lastAdd,     \* name -> the most recent AddOutput for it that returned
    stable,      \* name -> "add" / "gone" once a call on it returned, "none" once changed again
    startAbsent, \* goroutine -> name was in no slot when its DelOutput / Clear began
    touched,     \* goroutine -> its DelOutput / Clear changed a binding or closed a sink
    threshold,   \* rank + 1 of the severity the recorded sink is registered with, or 0
    watch,       \* the sink whose WriteLevel calls are recorded (a recording sink), or Nil
    wlog,        \* level names of the WriteLevel calls on the recorded sink, in order
    script,      \* goroutine -> calls it is to make, in order
    registered,  \* the sinks a slot has held at some time
    budget       \* calls the goroutines without a script may still start

VARIABLES
    stage,       \* SetupLogger: "new" before the call, "loop" in its first loop, "done" after
    std,         \* the process-wide logger: "default" (__std) or "setup" (SetupLogger's)
    logs,        \* SetupLogger: the entries of logs the first loop has gone through
    sout,        \* SetupLogger's logger: slot -> (name -> index in logs of the entry whose sink is bound)
    reported,    \* indexes in logs of the entries with a "LOG ERROR" line on Stderr
    lastLevels,  \* the value of WhatLevel(v.LogLevel) in the latest turn of the first loop
    debugTo      \* the sinks the "LOG OUTPUT" lines of the second loop were written to

setupvars == <<stage, std, logs, sout, reported, lastLevels, debugTo>>

regvars == <<out, pc, op, idx, cur, temp, found, snap, visited, seen, closedAtLoad,
             closed, lastAdd, stable, startAbsent, touched, threshold, watch,
             wlog, script, budget, registered>>

VARIABLES
    msg,         \* the record (Msg_t) a formatter or an envelope is given
    Layout,      \* DT_t.Layout of the chain's timestamp formatter
    buf,         \* the bytes the formatters have written to out
    fpc          \* the chain: number of formatters that have run, 0 when not in use

chainvars == <<Layout, buf, fpc>>

VARIABLES
    Hostname,    \* MessageTG_t.Hostname
    TextLimit,   \* MessageTG_t.TextLimit
    Text,        \* MessageTG_t.Text of FormatLog's receiver
    cutN,        \* n of the truncation loop
    tgpc         \* MessageTG_t.FormatLog: position, "off" when not in use

tgvars == <<Hostname, TextLimit, Text, cutN, tgpc>>

VARIABLES
    IndexFormat, \* MessageKB_t.Index.Index.Format
    kbSelf,      \* MessageKB_t.FormatLog: the fields of its receiver it sets
    kbOut,       \* the lines FormatLog has written to out
    kbErr,       \* the error FormatLog returns
    kbpc         \* MessageKB_t.FormatLog: position, "off" when not in use

kbvars == <<IndexFormat, kbSelf, kbOut, kbErr, kbpc>>

VARIABLES
    stdHist,     \* the values std has been given, in order; the first is __std's
    stdView,     \* goroutine -> the oldest of these writes its next read of std may still see
    fcall,       \* goroutine -> position in a free function or GetLogger, "idle" outside
    began,       \* goroutine -> number of writes of std done when its call began
    readAt       \* goroutine -> the write of std its call has read

stdvars == <<stdHist, stdView, fcall, began, readAt>>

VARIABLES
    exArgs,      \* the example: timestamp layout of the stdout sink, levels, messages
    exOut,       \* the example's logger: slot -> (name -> sink)
    expc,        \* the example: position of the main goroutine, "off" when not in use
    exKeys,      \* names the range loop of the running Debug has yet to visit
    exDone,      \* number of Debug calls that have returned
    stdoutLines, \* what Stdout_t.Write has written to os.Stdout, one entry per call
    otherWrites  \* sink -> number of Write calls on the file and http sinks

exvars == <<exArgs, exOut, expc, exKeys, exDone, stdoutLines, otherWrites>>

VARIABLES
    qMode,       \* the queue's backpressure mode: "drop" or "block"
    qSingle,     \* the wrapped sink does not tolerate concurrent writes: one active drainer
    queue,       \* the records in the queue, oldest first
    qHeld,       \* worker -> the record it has taken and not yet handed to the sink, or 0
    qSunk,       \* the records handed to the wrapped sink, in the order of the hand-over
    qErrors,     \* cumulative enqueue errors
    qWriteErrors,\* cumulative write errors
    qTried,      \* the enqueue calls so far: depth before the call, and whether it was accepted
    qTaken       \* the records taken from the queue, in the order they were taken

queuevars == <<qMode, qSingle, queue, qHeld, qSunk, qErrors, qWriteErrors, qTried, qTaken>>

VARIABLES
    fSize,       \* bytes written to the current file since it was opened
    fCurrent,    \* the currently open file, numbered in the order the files are opened
    fBackups,    \* the backup files kept, oldest first
    fPending,    \* size of the write in progress
    fWriteErrors,\* cumulative write errors of the sink
    fLast,       \* the latest write: would it exceed the limit, and the rolls it set off
    fPruneFailed,\* the deletion of a backup failed at the latest roll
    frpc         \* the rotating file sink: position in write, "off" when not in use

filevars == <<fSize, fCurrent, fBackups, fPending, fWriteErrors, fLast, fPruneFailed, frpc>>

auxvars == <<msg, chainvars, tgvars, kbvars, stdvars, exvars, queuevars, filevars>>

\* No record is being formatted.
NoMsg == msg = <<>>

NoChain == Layout = <<>> /\ buf = <<>> /\ fpc = 0

NoTG == Hostname = <<>> /\ TextLimit = 0 /\ Text = <<>> /\ cutN = 0 /\ tgpc = "off"

\* MessageKB_t with the fields FormatLog sets still empty.
EmptyKB == [Index |-> <<>>, Level |-> "", Timestamp |-> <<>>, Location |-> <<>>,
            Data |-> <<>>, Message |-> <<>>]

NoKB == IndexFormat = <<>> /\ kbSelf = EmptyKB /\ kbOut = <<>> /\ kbErr = FALSE /\ kbpc = "off"

\* No goroutine has called SetLogger, GetLogger or a free function.
NoStd ==
    /\ stdHist = <<"default">>
    /\ stdView = [p \in Procs |-> 1]
    /\ fcall = [p \in Procs |-> "idle"]
    /\ began = [p \in Procs |-> 1]
    /\ readAt = [p \in Procs |-> 1]

NoExample ==
    /\ exArgs = <<>>
    /\ exOut = [i \in Slots |-> <<>>]
    /\ expc = "off"
    /\ exKeys = {}
    /\ exDone = 0
    /\ stdoutLines = <<>>
    /\ otherWrites = [n \in {"file", "http"} |-> 0]

\* The worker tasks of a queue.
Workers == {"r1", "r2"}

\* A queue nothing was put into, with its workers idle.
EmptyQueue ==
    /\ queue = <<>>
    /\ qHeld = [w \in Workers |-> 0]
    /\ qSunk = <<>>
    /\ qErrors = 0
    /\ qWriteErrors = 0
    /\ qTried = <<>>
    /\ qTaken = <<>>

NoQueue == qMode = "off" /\ qSingle = FALSE /\ EmptyQueue

\* A file sink as constructed: the first file open and empty, no backup.
NewFile ==
    /\ fSize = 0
    /\ fCurrent = 1
    /\ fBackups = <<>>
    /\ fPending = 0
    /\ fWriteErrors = 0
    /\ fLast = [over |-> FALSE, rolls |-> 0]
    /\ fPruneFailed = FALSE

NoFile == NewFile /\ frpc = "off"

NoAux == NoMsg /\ NoChain /\ NoTG /\ NoKB /\ NoStd /\ NoExample /\ NoQueue /\ NoFile

\* ---------------------------------------------------------------- calls
NoOp == [kind |-> "none", name |-> Nil, writer |-> Nil, levels |-> <<>>, sev |-> 0]

AddOp(n, w, lv) == [kind |-> "add", name |-> n, writer |-> w, levels |-> lv, sev |-> 0]

DelOp(n) == [kind |-> "del", name |-> n, writer |-> Nil, levels |-> <<>>, sev |-> 0]

ClearOp == [kind |-> "clear", name |-> Nil, writer |-> Nil, levels |-> <<>>, sev |-> 0]

\* Trace / Debug / Info / Warn / Error (and the Ctx variants): k is the rank + 1.
LogOp(k) == [kind |-> "log", name |-> Nil, writer |-> Nil, levels |-> <<>>, sev |-> k]

\* The severities the free-running goroutines use (ranks + 1): TRACE, WARN and
\* ERROR, that is a sink in every slot, in two slots and in one.
FreeRanks == {1, 4, 5}

\* The level lists the free-running goroutines register with.
AddLevels == {Severities[k].Levels : k \in FreeRanks}

AllOps ==
    {AddOp(n, w, lv) : n \in Names, w \in Writers, lv \in AddLevels}
    \cup {DelOp(n) : n \in Names}
    \cup {ClearOp}
    \cup {LogOp(k) : k \in FreeRanks}

\* ------------------------------------------------------------ the slots
\* As SlotOf, with a dispatch method loading the slot of LOG_X.Levels' last
\* entry in place of its first.
SlotOfLast(p) ==
    CASE op[p].kind = "add" -> op[p].levels[idx[p]]
      [] op[p].kind = "log" -> Severities[op[p].sev].Levels[Len(Severities[op[p].sev].Levels)]
      [] OTHER -> idx[p]

\* The slot a goroutine is at: level[idx] in AddOutput, i in DelOutput and
\* Clear, LOG_X.Levels[0] in a dispatch method.
SlotOf(p) ==
    CASE op[p].kind = "add" -> op[p].levels[idx[p]]
      [] op[p].kind = "log" -> Severities[op[p].sev].Levels[1]
      [] OTHER -> idx[p]

\* The goroutines whose loaded pointer is the one slot i holds.
Holders(i) == {q \in Procs : cur[q] /\ SlotOf(q) = i}

\* As Stale, with a store into one slot failing the swaps on every slot.
StaleAll(c, i) == [q \in Procs |-> FALSE]

\* A new object went into slot i: the pointers loaded from it are stale.
Stale(c, i) == [q \in Procs |-> c[q] /\ q \notin Holders(i)]

\* As Publish, had temp been the loaded map itself, modified in place: the
\* dispatches that loaded the slot's pointer range over the modified map.
PublishInPlace(sn, i, m) ==
    [q \in Procs |-> IF q \in Holders(i) /\ pc[q] = "log_write" THEN m ELSE sn[q]]

\* unsafe.Pointer(&temp): temp is a map allocated in this turn of the loop, so
\* storing m in slot i leaves the maps sn that dispatches range over as they are.
Publish(sn, i, m) == sn

BoundLevels(n) == {i \in Slots : out[i][n] # Nil}

SinkLevels(w) == {i \in Slots : w \in Values(out[i])}

Idle == \A p \in Procs : pc[p] = "idle"

\* ------------------------------------------------ bookkeeping of the checks
\* The names whose binding differs between two maps.
Changed(old, new) == {n \in Names : old[n] # new[n]}

\* The binding of these names changed after the last call on them returned.
Unsettle(st, names) == [n \in Names |-> IF n \in names THEN "none" ELSE st[n]]

\* Goroutine p bound name n: a DelOutput(n) or Clear of another goroutine that
\* began with the name absent no longer runs on a registry without it.
Disturb(ab, p, n) ==
    [q \in Procs |->
        IF q # p /\ (op[q].kind = "clear" \/ (op[q].kind = "del" /\ op[q].name = n))
        THEN FALSE ELSE ab[q]]

\* ---------------------------------------------------------------- Begin
NextOps(p) ==
    IF script[p] # <<>> THEN {Head(script[p])}
    ELSE IF budget > 0 THEN AllOps ELSE {}

FirstPc(o) ==
    CASE o.kind = "add" -> "add_load"
      [] o.kind = "del" -> "del_load"
      [] o.kind = "clear" -> "clear"
      [] o.kind = "log" -> "log_load"

\* A goroutine calls AddOutput, DelOutput, Clear or one of the dispatch methods.
Begin(p) ==
    /\ pc[p] = "idle"
    /\ UNCHANGED <<setupvars, auxvars, registered>>
    /\ \E o \in NextOps(p) :
        /\ op' = [op EXCEPT ![p] = o]
        /\ pc' = [pc EXCEPT ![p] = FirstPc(o)]
        /\ idx' = [idx EXCEPT ![p] = IF o.kind = "add" THEN 1 ELSE 0]
        /\ closed' = IF o.kind = "add" THEN [closed EXCEPT ![o.writer] = FALSE] ELSE closed
        /\ startAbsent' = [startAbsent EXCEPT ![p] =
                CASE o.kind = "del" -> BoundLevels(o.name) = {}
                  [] o.kind = "clear" -> \A n \in Names : BoundLevels(n) = {}
                  [] OTHER -> FALSE]
        /\ touched' = [touched EXCEPT ![p] = FALSE]
    /\ script' = [script EXCEPT ![p] = IF script[p] # <<>> THEN Tail(script[p]) ELSE <<>>]
    /\ budget' = IF script[p] # <<>> THEN budget ELSE budget - 1
    /\ UNCHANGED <<out, cur, temp, found, snap, visited, seen, closedAtLoad,
                   lastAdd, stable, threshold, watch, wlog>>

\* ------------------------------------------------------------ add_output
\* As AddTemp, without the copy of the entries of *p.
AddTempFresh(m, name, writer) == [EmptyMap EXCEPT ![name] = writer]

\* temp := writers_t{}; temp[k] = v for every entry of *p; temp[name] = writer
AddTemp(m, name, writer) == [m EXCEPT ![name] = writer]

\* p := atomic.LoadPointer(value), and the copy into temp.
AddLoad(p) ==
    /\ pc[p] = "add_load"
    /\ UNCHANGED <<setupvars, auxvars, registered>>
    /\ cur' = [cur EXCEPT ![p] = TRUE]
    /\ temp' = [temp EXCEPT ![p] = AddTemp(out[SlotOf(p)], op[p].name, op[p].writer)]
    /\ pc' = [pc EXCEPT ![p] = "add_cas"]
    /\ UNCHANGED <<out, op, idx, found, snap, visited, seen, closedAtLoad, closed,
                   lastAdd, stable, startAbsent, touched, threshold, watch, wlog,
                   script, budget>>

\* atomic.CompareAndSwapPointer(value, p, &temp): on success the next level, or
\* the return of AddOutput after the last one; on failure the loop starts over.
AddCas(p) ==
    /\ pc[p] = "add_cas"
    /\ UNCHANGED <<setupvars, auxvars>>
    /\ registered' = IF cur[p] THEN registered \cup {op[p].writer} ELSE registered
    /\ LET v == SlotOf(p)
           ok == cur[p]
           last == idx[p] = Len(op[p].levels)
           ch == IF ok THEN Changed(out[v], temp[p]) ELSE {}
       IN /\ out' = IF ok THEN [out EXCEPT ![v] = temp[p]] ELSE out
          /\ snap' = IF ok THEN Publish(snap, v, temp[p]) ELSE snap
          /\ cur' = IF ok THEN Stale(cur, v) ELSE cur
          /\ temp' = [temp EXCEPT ![p] = EmptyMap]
          /\ pc' = [pc EXCEPT ![p] = IF ok /\ last THEN "idle" ELSE "add_load"]
          /\ idx' = [idx EXCEPT ![p] = IF ~ok THEN @ ELSE IF last THEN 0 ELSE @ + 1]
          /\ op' = [op EXCEPT ![p] = IF ok /\ last THEN NoOp ELSE @]
          /\ lastAdd' = IF ok /\ last
                        THEN [lastAdd EXCEPT ![op[p].name] =
                                 [writer |-> op[p].writer, levels |-> SeqToSet(op[p].levels)]]
                        ELSE lastAdd
          /\ stable' = IF ok /\ last THEN [Unsettle(stable, ch) EXCEPT ![op[p].name] = "add"]
                       ELSE Unsettle(stable, ch)
          /\ startAbsent' = IF ok THEN Disturb(startAbsent, p, op[p].name) ELSE startAbsent
    /\ UNCHANGED <<found, visited, seen, closedAtLoad, closed, touched, threshold,
                   watch, wlog, script, budget>>

\* ------------------------------------------------------------ del_output
\* As DelTemp, without the copy of the other entries.
DelTempDropAll(m, name) == EmptyMap

\* temp := writers_t{}; temp[k] = v for every entry of *p but name
DelTemp(m, name) == [m EXCEPT ![name] = Nil]

\* p := atomic.LoadPointer(value), the copy into temp, writer = (*p)[name].
DelLoad(p) ==
    /\ pc[p] = "del_load"
    /\ UNCHANGED <<setupvars, auxvars, registered>>
    /\ cur' = [cur EXCEPT ![p] = TRUE]
    /\ temp' = [temp EXCEPT ![p] = DelTemp(out[idx[p]], op[p].name)]
    /\ found' = [found EXCEPT ![p] = out[idx[p]][op[p].name]]
    /\ pc' = [pc EXCEPT ![p] = "del_cas"]
    /\ UNCHANGED <<out, op, idx, snap, visited, seen, closedAtLoad, closed, lastAdd,
                   stable, startAbsent, touched, threshold, watch, wlog, script, budget>>

\* Where del_output goes once the swap succeeded: to writer.Close() when the
\* name was found, else on to the next slot or out of DelOutput.
AfterDelCas(w, last) == IF w # Nil THEN "del_close" ELSE IF last THEN "idle" ELSE "del_load"

\* atomic.CompareAndSwapPointer(value, p, &temp); on failure the loop starts over.
DelCas(p) ==
    /\ pc[p] = "del_cas"
    /\ UNCHANGED <<setupvars, auxvars, registered>>
    /\ LET v == idx[p]
           ok == cur[p]
           last == idx[p] = NumLevels - 1
           ch == IF ok THEN Changed(out[v], temp[p]) ELSE {}
           next == IF ok THEN AfterDelCas(found[p], last) ELSE "del_load"
       IN /\ out' = IF ok THEN [out EXCEPT ![v] = temp[p]] ELSE out
          /\ snap' = IF ok THEN Publish(snap, v, temp[p]) ELSE snap
          /\ cur' = IF ok THEN Stale(cur, v) ELSE cur
          /\ temp' = [temp EXCEPT ![p] = EmptyMap]
          /\ pc' = [pc EXCEPT ![p] = next]
          /\ found' = [found EXCEPT ![p] = IF next = "del_close" THEN @ ELSE Nil]
          /\ idx' = [idx EXCEPT ![p] = IF next = "del_load" /\ ok THEN @ + 1
                                       ELSE IF next = "idle" THEN 0 ELSE @]
          /\ stable' = IF next = "idle"
                       THEN [Unsettle(stable, ch) EXCEPT ![op[p].name] = "gone"]
                       ELSE Unsettle(stable, ch)
          /\ op' = [op EXCEPT ![p] = IF next = "idle" THEN NoOp ELSE @]
          /\ touched' = [touched EXCEPT ![p] = @ \/ ch # {}]
    /\ UNCHANGED <<visited, seen, closedAtLoad, closed, lastAdd, startAbsent,
                   threshold, watch, wlog, script, budget>>

\* writer.Close(), then the next slot or the return of DelOutput.
DelClose(p) ==
    /\ pc[p] = "del_close"
    /\ UNCHANGED <<setupvars, auxvars, registered>>
    /\ LET last == idx[p] = NumLevels - 1
       IN /\ closed' = [closed EXCEPT ![found[p]] = TRUE]
          /\ found' = [found EXCEPT ![p] = Nil]
          /\ pc' = [pc EXCEPT ![p] = IF last THEN "idle" ELSE "del_load"]
          /\ idx' = [idx EXCEPT ![p] = IF last THEN 0 ELSE @ + 1]
          /\ stable' = IF last THEN [stable EXCEPT ![op[p].name] = "gone"] ELSE stable
          /\ op' = [op EXCEPT ![p] = IF last THEN NoOp ELSE @]
          /\ touched' = [touched EXCEPT ![p] = TRUE]
    /\ UNCHANGED <<out, cur, temp, snap, visited, seen, closedAtLoad, lastAdd,
                   startAbsent, threshold, watch, wlog, script, budget>>

\* ----------------------------------------------------------------- Clear
\* atomic.StorePointer(&self.out[i], &writers_t{}) for the slot Clear is at.
ClearStep(p) ==
    /\ pc[p] = "clear"
    /\ UNCHANGED <<setupvars, auxvars, registered>>
    /\ LET v == idx[p]
           last == idx[p] = NumLevels - 1
           ch == Changed(out[v], EmptyMap)
       IN /\ out' = [out EXCEPT ![v] = EmptyMap]
          /\ snap' = Publish(snap, v, EmptyMap)
          /\ cur' = Stale(cur, v)
          /\ pc' = [pc EXCEPT ![p] = IF last THEN "idle" ELSE "clear"]
          /\ idx' = [idx EXCEPT ![p] = IF last THEN 0 ELSE @ + 1]
          /\ stable' = IF last THEN [n \in Names |-> "gone"] ELSE Unsettle(stable, ch)
          /\ op' = [op EXCEPT ![p] = IF last THEN NoOp ELSE @]
          /\ touched' = [touched EXCEPT ![p] = @ \/ ch # {}]
    /\ UNCHANGED <<temp, found, visited, seen, closedAtLoad, closed, lastAdd,
                   startAbsent, threshold, watch, wlog, script, budget>>

\* ------------------------------------------------- Trace .. Error, *Ctx
\* Keys of the loaded map the range loop has not visited yet.
Unvisited(p) == Keys(snap[p]) \ visited[p]

\* atomic.LoadPointer(&self.out[LOG_X.Levels[0]]); an empty map ends the call.
LogLoad(p) ==
    /\ pc[p] = "log_load"
    /\ UNCHANGED <<setupvars, auxvars, registered>>
    /\ LET m == out[SlotOf(p)]
           none == Keys(m) = {}
       IN /\ cur' = [cur EXCEPT ![p] = ~none]
          /\ snap' = [snap EXCEPT ![p] = m]
          /\ seen' = [seen EXCEPT ![p] = m]
          /\ closedAtLoad' = [closedAtLoad EXCEPT ![p] =
                                 IF none THEN {} ELSE {w \in Writers : closed[w]}]
          /\ pc' = [pc EXCEPT ![p] = IF none THEN "idle" ELSE "log_write"]
          /\ op' = [op EXCEPT ![p] = IF none THEN NoOp ELSE @]
    /\ UNCHANGED <<out, idx, temp, found, visited, closed, lastAdd, stable,
                   startAbsent, touched, threshold, watch, wlog, script, budget>>

\* One turn of the range loop: v.WriteLevel(ctx, ts, LOG_X.Name, ...) on an entry
\* of the loaded map, in the order Go's map iteration happens to give; the call
\* returns after the last entry.
LogWrite(p) ==
    /\ pc[p] = "log_write"
    /\ UNCHANGED <<setupvars, auxvars, registered>>
    /\ \E n \in Unvisited(p) :
        LET last == Unvisited(p) = {n}
        IN /\ wlog' = IF snap[p][n] = watch
                      THEN Append(wlog, Severities[op[p].sev].Name) ELSE wlog
           /\ visited' = [visited EXCEPT ![p] = IF last THEN {} ELSE @ \cup {n}]
           /\ cur' = [cur EXCEPT ![p] = IF last THEN FALSE ELSE @]
           /\ snap' = [snap EXCEPT ![p] = IF last THEN EmptyMap ELSE @]
           /\ seen' = [seen EXCEPT ![p] = IF last THEN EmptyMap ELSE @]
           /\ closedAtLoad' = [closedAtLoad EXCEPT ![p] = IF last THEN {} ELSE @]
           /\ pc' = [pc EXCEPT ![p] = IF last THEN "idle" ELSE "log_write"]
           /\ op' = [op EXCEPT ![p] = IF last THEN NoOp ELSE @]
    /\ UNCHANGED <<out, idx, temp, found, closed, lastAdd, stable, startAbsent,
                   touched, threshold, watch, script, budget>>

\* ------------------------------------------------------ specifications
vars == <<regvars, setupvars, auxvars>>

Next ==
    \E p \in Procs :
        \/ Begin(p)
        \/ AddLoad(p)
        \/ AddCas(p)
        \/ DelLoad(p)
        \/ DelCas(p)
        \/ DelClose(p)
        \/ ClearStep(p)
        \/ LogLoad(p)
        \/ LogWrite(p)

\* SetupLogger has not been called.
NoSetup ==
    /\ stage = "new"
    /\ std = "default"
    /\ logs = <<>>
    /\ sout = [i \in Slots |-> <<>>]
    /\ reported = {}
    /\ lastLevels = <<>>
    /\ debugTo = {}

\* NewEmpty(): Clear() on a fresh log_t stores an empty map in every slot.
NewEmpty == [i \in Slots |-> EmptyMap]

\* NewLogger(name, writer, level): NewEmpty() followed by AddOutput.
NewLogger(name, writer, level) ==
    [i \in Slots |-> IF i \in SeqToSet(level) THEN AddTemp(NewEmpty[i], name, writer)
                     ELSE NewEmpty[i]]

InitLocals ==
    /\ pc = [p \in Procs |-> "idle"]
    /\ op = [p \in Procs |-> NoOp]
    /\ idx = [p \in Procs |-> 0]
    /\ cur = [p \in Procs |-> FALSE]
    /\ temp = [p \in Procs |-> EmptyMap]
    /\ found = [p \in Procs |-> Nil]
    /\ snap = [p \in Procs |-> EmptyMap]
    /\ visited = [p \in Procs |-> {}]
    /\ seen = [p \in Procs |-> EmptyMap]
    /\ closedAtLoad = [p \in Procs |-> {}]
    /\ closed = [w \in Writers |-> FALSE]
    /\ startAbsent = [p \in Procs |-> FALSE]
    /\ touched = [p \in Procs |-> FALSE]
    /\ wlog = <<>>

\* The registry as NewEmpty() leaves it.
InitEmpty ==
    /\ out = NewEmpty
    /\ registered = {}
    /\ lastAdd = [n \in Names |-> [writer |-> Nil, levels |-> {}]]
    /\ stable = [n \in Names |-> "gone"]

\* The registry as NewLogger("a", w1, LOG_T.Levels) leaves it.
InitLogger ==
    \E k \in FreeRanks :
        /\ out = NewLogger("a", "w1", Severities[k].Levels)
        /\ registered = {"w1"}
        /\ lastAdd = [n \in Names |->
                        IF n = "a"
                        THEN [writer |-> "w1", levels |-> SeqToSet(Severities[k].Levels)]
                        ELSE [writer |-> Nil, levels |-> {}]]
        /\ stable = [n \in Names |-> IF n = "a" THEN "add" ELSE "gone"]

\* Goroutines that call the registry and the dispatch methods in any order, on
\* a registry made by NewEmpty or NewLogger.
Init ==
    /\ InitLocals
    /\ InitEmpty \/ InitLogger
    /\ script = [p \in Procs |-> <<>>]
    /\ budget = MaxOps
    /\ threshold = 0
    /\ watch = Nil
    /\ NoSetup
    /\ NoAux

Spec == Init /\ [][Next]_vars

\* The threshold scenario: goroutine p1 empties the registry, registers the
\* recorded sink w1 as "a" with LOG_T.Levels and logs one record at each of
\* TRACE, DEBUG, INFO, WARN, ERROR in that order, while goroutine p2 registers
\* and removes another sink under another name.
ThresholdScript(k) ==
    <<ClearOp, AddOp("a", "w1", Severities[k].Levels),
      LogOp(1), LogOp(2), LogOp(3), LogOp(4), LogOp(5)>>

OtherScript(k) == <<AddOp("b", "w2", Severities[k].Levels), DelOp("b")>>

InitThreshold ==
    /\ InitLocals
    /\ InitEmpty
    /\ budget = 0
    /\ watch = "w1"
    /\ NoSetup
    /\ NoAux
    /\ \E k \in Ranks, j \in Ranks :
        /\ threshold = k
        /\ script = [p \in Procs |-> IF p = "p1" THEN ThresholdScript(k) ELSE OtherScript(j)]

SpecThreshold == InitThreshold /\ [][Next]_vars

\* ============================================================ SetupLogger
FileKinds == {"file", "filequeue", "filetime", "filetimequeue"}

StdoutKinds == {"stdout", "stdoutqueue"}

StderrKinds == {"stderr", "stderrqueue"}

Files == {"f1", "f2"}

\* Values of LogLevel: the five thresholds, one below and one above.
LogLevels == -1 .. 5

\* Args_t, with the outcome of the sink constructor: fails is whether
\* NewFileBytes / NewFileBytesQueue / NewFileTime / NewFileTimeQueue returns an
\* error for the entry.  "syslog" stands for any LogType the switch has no case
\* for.  LogLevel varies where the loop reads it: in the entries it registers.
Entries ==
    [LogType : FileKinds, LogFile : Files, LogLevel : LogLevels, fails : {FALSE}]
    \cup [LogType : FileKinds, LogFile : Files, LogLevel : {0}, fails : {TRUE}]
    \cup [LogType : StdoutKinds \cup StderrKinds, LogFile : {""}, LogLevel : LogLevels,
          fails : {FALSE}]
    \cup [LogType : {"syslog"}, LogFile : {""}, LogLevel : {0}, fails : {FALSE}]

\* WhatLevel(in): the levels a sink with LogLevel in is registered with.
WhatLevel(in) ==
    CASE in = 4 -> <<LOG_ERROR>>
      [] in = 3 -> <<LOG_ERROR, LOG_WARN>>
      [] in = 2 -> <<LOG_ERROR, LOG_WARN, LOG_INFO>>
      [] in = 1 -> <<LOG_ERROR, LOG_WARN, LOG_INFO, LOG_DEBUG>>
      [] OTHER -> <<LOG_ERROR, LOG_WARN, LOG_INFO, LOG_DEBUG, LOG_TRACE>>

\* The slots whose maps the dispatch methods of these levels load.
LevelSlots(levels) == {levels[i].Levels[1] : i \in 1 .. Len(levels)}

\* The name the switch registers the entry's sink under.
OutputName(v) ==
    IF v.LogType \in FileKinds THEN v.LogFile
    ELSE IF v.LogType \in StdoutKinds THEN "stdout" ELSE "stderr"

\* As Registers, with the constructor's error ignored.
RegistersAlways(v) == v.LogType \in FileKinds \cup StdoutKinds \cup StderrKinds

\* The switch calls logger.AddOutput for the entry: a case of the switch
\* matches and, for the file kinds, the constructor returned no error.
Registers(v) ==
    \/ v.LogType \in StdoutKinds \cup StderrKinds
    \/ v.LogType \in FileKinds /\ ~v.fails

\* The switch writes a "LOG ERROR" line to Stderr for the entry.
Reports(v) == v.LogType \in FileKinds /\ v.fails

\* A map of SetupLogger's logger: name -> index of the entry whose sink is bound.
Bind(m, name, i) == [n \in DOMAIN m \cup {name} |-> IF n = name THEN i ELSE m[n]]

\* logger.AddOutput(name, output, levels) on the logger nobody else has yet:
\* add_output on the slot of every level.
SetupAddOutput(so, name, i, levels) ==
    [v \in Slots |-> IF v \in LevelSlots(levels) THEN Bind(so[v], name, i) ELSE so[v]]

\* The slots in which the sink of entry i is bound.
EntrySlots(i) == {v \in Slots : \E n \in DOMAIN sout[v] : sout[v][n] = i}

\* logger := SetLogger(New())
SetupBegin ==
    /\ stage = "new"
    /\ stage' = "loop"
    /\ std' = "setup"
    /\ sout' = [i \in Slots |-> <<>>]
    /\ UNCHANGED <<logs, reported, lastLevels, debugTo>>
    /\ UNCHANGED <<regvars, auxvars>>

\* One turn of the first loop, for the next entry v of logs.
SetupEntry ==
    /\ stage = "loop"
    /\ Len(logs) < MaxLogs
    /\ \E v \in Entries :
        LET i == Len(logs) + 1
        IN /\ logs' = Append(logs, v)
           /\ lastLevels' = IF Registers(v) THEN WhatLevel(v.LogLevel) ELSE <<>>
           /\ sout' = IF Registers(v)
                      THEN SetupAddOutput(sout, OutputName(v), i, WhatLevel(v.LogLevel))
                      ELSE sout
           /\ reported' = IF Reports(v) THEN reported \cup {i} ELSE reported
    /\ UNCHANGED <<stage, std, debugTo>>
    /\ UNCHANGED <<regvars, auxvars>>

\* The end of logs: the second loop logs one "LOG OUTPUT" line per entry with
\* Debug, which goes to the sinks of LOG_DEBUG's slot; then SetupLogger returns.
SetupFinish ==
    /\ stage = "loop"
    /\ stage' = "done"
    /\ debugTo' = IF logs = <<>> THEN {}
                  ELSE {sout[LOG_DEBUG.Levels[1]][n] : n \in DOMAIN sout[LOG_DEBUG.Levels[1]]}
    /\ UNCHANGED <<std, logs, sout, reported, lastLevels>>
    /\ UNCHANGED <<regvars, auxvars>>

SetupNext == SetupBegin \/ SetupEntry \/ SetupFinish

InitSetup ==
    /\ InitLocals
    /\ InitEmpty
    /\ script = [p \in Procs |-> <<>>]
    /\ budget = 0
    /\ threshold = 0
    /\ watch = Nil
    /\ NoSetup
    /\ NoAux

\* SetupLogger called on any list of at most MaxLogs entries.
SpecSetup == InitSetup /\ [][SetupNext]_vars

\* The registry and SetupLogger are not in use.
NoRegistry ==
    /\ InitLocals
    /\ InitEmpty
    /\ script = [p \in Procs |-> <<>>]
    /\ budget = 0
    /\ threshold = 0
    /\ watch = Nil
    /\ NoSetup

\* ------------------------------------- updates on pairwise distinct names
\* What AddOutput(name, writer, levels) calls leave of a name: nothing, or
\* the writer in the slots of levels.
Unbound == [writer |-> Nil, levels |-> {}]

BindingsOf(w) == {Unbound} \cup {[writer |-> w, levels |-> SeqToSet(lv)] : lv \in AddLevels}

\* The registry after NewEmpty() and an AddOutput for each name b binds.
RegistryOf(b) ==
    [i \in Slots |->
        [n \in Names |-> IF i \in b[n].levels THEN AddTemp(NewEmpty[i], n, b[n].writer)[n]
                         ELSE NewEmpty[i][n]]]

\* One call on a name: AddOutput(n, w, LOG_T.Levels) or DelOutput(n).
CallsOn(n, w) == {<<AddOp(n, w, lv)>> : lv \in AddLevels} \cup {<<DelOp(n)>>}

\* Goroutine p1 makes one call on "a" while goroutine p2 makes one call on "b",
\* or none, on a registry that binds each of the names or not.
InitDistinct ==
    /\ InitLocals
    /\ budget = 0
    /\ threshold = 0
    /\ watch = Nil
    /\ NoSetup
    /\ NoAux
    /\ \E ba \in BindingsOf("w1"), bb \in BindingsOf("w2") :
        LET b == [n \in Names |-> IF n = "a" THEN ba ELSE bb]
        IN /\ out = RegistryOf(b)
           /\ registered = {b[n].writer : n \in Names} \ {Nil}
           /\ lastAdd = b
           /\ stable = [n \in Names |-> IF b[n] = Unbound THEN "gone" ELSE "add"]
    /\ \E sa \in CallsOn("a", "w1"), sb \in CallsOn("b", "w2") \cup {<<>>} :
        script = [p \in Procs |-> IF p = "p1" THEN sa ELSE sb]

\* AddOutput and DelOutput only.
UpdateNext ==
    \E p \in Procs :
        \/ Begin(p)
        \/ AddLoad(p)
        \/ AddCas(p)
        \/ DelLoad(p)
        \/ DelCas(p)
        \/ DelClose(p)

SpecDistinct == InitDistinct /\ [][UpdateNext]_vars

\* ------------------------------------------------------ fair scheduling
\* The steps of one goroutine.
Step(p) ==
    \/ Begin(p)
    \/ AddLoad(p)
    \/ AddCas(p)
    \/ DelLoad(p)
    \/ DelCas(p)
    \/ DelClose(p)
    \/ ClearStep(p)
    \/ LogLoad(p)
    \/ LogWrite(p)

\* What goroutine p1 does: an update of "a", then a dispatch.
UpdateScripts ==
    {<<AddOp("a", "w1", LOG_TRACE.Levels), LogOp(5)>>,
     <<DelOp("a"), LogOp(5)>>}

\* What goroutine p2 does meanwhile: one update of the same name, a Clear, or a dispatch.
ContendingScripts ==
    {<<AddOp("a", "w2", lv)>> : lv \in AddLevels}
    \cup {<<DelOp("a")>>, <<ClearOp>>, <<LogOp(1)>>}

\* Finitely many calls, of two goroutines that contend for the slots of one name.
InitProgress ==
    /\ InitLocals
    /\ InitEmpty \/ InitLogger
    /\ budget = 0
    /\ threshold = 0
    /\ watch = Nil
    /\ NoSetup
    /\ NoAux
    /\ \E s1 \in UpdateScripts, s2 \in ContendingScripts :
        script = [p \in Procs |-> IF p = "p1" THEN s1 ELSE s2]

\* The scheduler runs every goroutine that can take a step.
SpecProgress == InitProgress /\ [][Next]_vars /\ \A p \in Procs : WF_vars(Step(p))

\* ======================================================== the formatters
\* Strings are sequences of bytes.
StrSpace == <<32>>

StrColon == <<58>>

StrDot == <<46>>

\* string(filepath.Separator)
StrSeparator == <<47>>

\* strconv.FormatInt(i, 10), i >= 0
RECURSIVE FormatInt(_)
FormatInt(i) == IF i < 10 THEN <<48 + i>> ELSE FormatInt(i \div 10) \o <<48 + (i % 10)>>

\* Ts.AppendFormat(b[:0], layout): the byte "5" of a layout stands for the
\* second of the time, any other byte of these layouts is copied.
RECURSIVE AppendFormat(_, _)
AppendFormat(ts, layout) ==
    IF layout = <<>> THEN <<>>
    ELSE (IF Head(layout) = 53 THEN FormatInt(ts.Second) ELSE <<Head(layout)>>)
             \o AppendFormat(ts, Tail(layout))

\* filepath.Base: the path without its trailing separators ...
RECURSIVE StripSeparators(_)
StripSeparators(path) ==
    IF path # <<>> /\ <<path[Len(path)]>> = StrSeparator
    THEN StripSeparators(SubSeq(path, 1, Len(path) - 1))
    ELSE path

\* ... and the part of it after the last separator.
RECURSIVE LastElement(_)
LastElement(path) ==
    IF path = <<>> \/ <<path[Len(path)]>> = StrSeparator THEN <<>>
    ELSE LastElement(SubSeq(path, 1, Len(path) - 1)) \o <<path[Len(path)]>>

\* filepath.Base(path): "." for the empty path, the separator for a path of
\* separators only.
Base(path) ==
    IF path = <<>> THEN StrDot
    ELSE IF StripSeparators(path) = <<>> THEN StrSeparator
    ELSE LastElement(StripSeparators(path))

\* A record's m.Ctx that carries no log context: GetLogContext gives nil for it.
NoContext == [set |-> FALSE, ContextName |-> <<>>]

\* GetLogContext(ctx): the log context the record's m.Ctx carries.
GetLogContext(ctx) == ctx

\* DT_t.FormatLog: the timestamp in self.Layout, and a space after it if
\* anything was written.
DtFormatLog(self, o, m) ==
    LET b == AppendFormat(m.Level.Ts, self.Layout)
    IN IF Len(b) > 0 THEN o \o b \o StrSpace ELSE o

\* FileLine_t.FormatLog: filepath.Base(m.Level.File) and, if anything was
\* written, ":", the line and a space.
FileLineFormatLog(o, m) ==
    LET b == Base(m.Level.File)
    IN IF Len(b) > 0 THEN o \o b \o StrColon \o FormatInt(m.Level.Line) \o StrSpace ELSE o

\* GetLogContext_t.FormatLog: the context's name and, if anything was written,
\* a space; nothing for a record without a context.
CxFormatLog(o, m) ==
    LET v == GetLogContext(m.Ctx)
    IN IF v.set
       THEN (IF Len(v.ContextName) > 0 THEN o \o v.ContextName \o StrSpace ELSE o)
       ELSE o

\* m.Level.File: none, "a", "d/a", "d/", "/"
Paths == {<<>>, <<97>>, <<100, 47, 97>>, <<100, 47>>, <<47>>}

Lines == {0, 7, 42}

\* m.Ctx: no context, a context with an empty name, a context named "c"
Contexts == {NoContext, [set |-> TRUE, ContextName |-> <<>>],
             [set |-> TRUE, ContextName |-> <<99>>]}

Times == {[Second |-> 5], [Second |-> 42]}

\* Timestamp layouts: "", "5", "T5"
Layouts == {<<>>, <<53>>, <<84, 53>>}

\* The records given to the chain.
ChainMsgs ==
    [Level : [Name : {"INFO"}, Ts : Times, File : Paths, Line : Lines],
     Ctx : Contexts, Format : {<<>>}, Args : {<<>>}]

\* The chain []Formatter{NewDt(layout), NewFl(), NewCx()}: its first formatter.
ChainDt ==
    /\ fpc = 1
    /\ buf' = DtFormatLog([Layout |-> Layout], buf, msg)
    /\ fpc' = 2
    /\ UNCHANGED <<msg, Layout>>
    /\ UNCHANGED <<regvars, setupvars, tgvars, kbvars, stdvars, exvars, queuevars, filevars>>

\* Its second formatter.
ChainFl ==
    /\ fpc = 2
    /\ buf' = FileLineFormatLog(buf, msg)
    /\ fpc' = 3
    /\ UNCHANGED <<msg, Layout>>
    /\ UNCHANGED <<regvars, setupvars, tgvars, kbvars, stdvars, exvars, queuevars, filevars>>

\* Its third formatter.
ChainCx ==
    /\ fpc = 3
    /\ buf' = CxFormatLog(buf, msg)
    /\ fpc' = 4
    /\ UNCHANGED <<msg, Layout>>
    /\ UNCHANGED <<regvars, setupvars, tgvars, kbvars, stdvars, exvars, queuevars, filevars>>

ChainNext == ChainDt \/ ChainFl \/ ChainCx

InitChain ==
    /\ NoRegistry
    /\ msg \in ChainMsgs
    /\ Layout \in Layouts
    /\ buf = <<>>
    /\ fpc = 1
    /\ NoTG
    /\ NoKB
    /\ NoStd
    /\ NoExample
    /\ NoQueue
    /\ NoFile

\* The formatter chain run on any record, with any timestamp layout.
SpecChain == InitChain /\ [][ChainNext]_vars

\* ================================================= MessageTG_t.FormatLog
\* Number of characters of the message of a chat notification.
MaxChars == 3

\* utf8.RuneError, utf8.RuneSelf, utf8.UTFMax
RuneError == 65533

RuneSelf == 128

UTFMax == 4

\* A continuation byte, 10xxxxxx.
Continuation(b) == b >= 128 /\ b <= 191

\* utf8.RuneStart(b)
RuneStart(b) == ~Continuation(b)

\* The size of the encoding a first byte announces (0: not a first byte) and
\* the range its second byte must be in (utf8's first and acceptRanges tables).
First(b) ==
    CASE b < RuneSelf -> [sz |-> 1, lo |-> 0, hi |-> 0]
      [] b >= 194 /\ b <= 223 -> [sz |-> 2, lo |-> 128, hi |-> 191]
      [] b = 224 -> [sz |-> 3, lo |-> 160, hi |-> 191]
      [] (b >= 225 /\ b <= 236) \/ b = 238 \/ b = 239 -> [sz |-> 3, lo |-> 128, hi |-> 191]
      [] b = 237 -> [sz |-> 3, lo |-> 128, hi |-> 159]
      [] b = 240 -> [sz |-> 4, lo |-> 144, hi |-> 191]
      [] b >= 241 /\ b <= 243 -> [sz |-> 4, lo |-> 128, hi |-> 191]
      [] b = 244 -> [sz |-> 4, lo |-> 128, hi |-> 143]
      [] OTHER -> [sz |-> 0, lo |-> 0, hi |-> 0]

\* utf8.DecodeRuneInString(s): the first rune of s and its width; (RuneError, 1)
\* for an encoding that is invalid or cut short.
DecodeRuneInString(s) ==
    IF s = <<>> THEN [r |-> RuneError, size |-> 0]
    ELSE LET x == First(s[1])
             bad == [r |-> RuneError, size |-> 1]
         IN CASE x.sz = 1 -> [r |-> s[1], size |-> 1]
              [] x.sz = 0 -> bad
              [] x.sz > 1 /\ Len(s) < x.sz -> bad
              [] x.sz > 1 /\ Len(s) >= x.sz /\ (s[2] < x.lo \/ s[2] > x.hi) -> bad
              [] x.sz = 2 /\ Len(s) >= 2 /\ s[2] >= x.lo /\ s[2] <= x.hi ->
                    [r |-> (s[1] % 32) * 64 + (s[2] % 64), size |-> 2]
              [] x.sz > 2 /\ Len(s) >= x.sz /\ s[2] >= x.lo /\ s[2] <= x.hi
                   /\ ~Continuation(s[3]) -> bad
              [] x.sz = 3 /\ Len(s) >= 3 /\ s[2] >= x.lo /\ s[2] <= x.hi
                   /\ Continuation(s[3]) ->
                    [r |-> (s[1] % 16) * 4096 + (s[2] % 64) * 64 + (s[3] % 64), size |-> 3]
              [] x.sz = 4 /\ Len(s) >= 4 /\ s[2] >= x.lo /\ s[2] <= x.hi
                   /\ Continuation(s[3]) /\ ~Continuation(s[4]) -> bad
              [] x.sz = 4 /\ Len(s) >= 4 /\ s[2] >= x.lo /\ s[2] <= x.hi
                   /\ Continuation(s[3]) /\ Continuation(s[4]) ->
                    [r |-> (s[1] % 8) * 262144 + (s[2] % 64) * 4096
                             + (s[3] % 64) * 64 + (s[4] % 64),
                     size |-> 4]

\* The backward scan of DecodeLastRuneInString, on 0-based offsets:
\* for start--; start >= lim; start-- { if RuneStart(s[start]) { break } }
RECURSIVE ScanBack(_, _, _)
ScanBack(s, start, lim) ==
    IF start < lim THEN start
    ELSE IF RuneStart(s[start + 1]) THEN start
    ELSE ScanBack(s, start - 1, lim)

\* As DecodeLastRuneInString, taking the last byte for the last rune.
DecodeLastByte(s) ==
    IF s = <<>> THEN [r |-> RuneError, size |-> 0] ELSE [r |-> s[Len(s)], size |-> 1]

\* utf8.DecodeLastRuneInString(s): the last rune of s and its width.
DecodeLastRuneInString(s) ==
    IF s = <<>> THEN [r |-> RuneError, size |-> 0]
    ELSE IF s[Len(s)] < RuneSelf THEN [r |-> s[Len(s)], size |-> 1]
    ELSE LET end == Len(s)
             lim == IF end - UTFMax < 0 THEN 0 ELSE end - UTFMax
             back == ScanBack(s, end - 2, lim)
             start == IF back < 0 THEN 0 ELSE back
             d == DecodeRuneInString(SubSeq(s, start + 1, end))
         IN IF start + d.size # end THEN [r |-> RuneError, size |-> 1] ELSE d

\* m.Level.Name as bytes.
Bytes(name) ==
    CASE name = "TRACE" -> <<84, 82, 65, 67, 69>>
      [] name = "DEBUG" -> <<68, 69, 66, 85, 71>>
      [] name = "INFO" -> <<73, 78, 70, 79>>
      [] name = "WARN" -> <<87, 65, 82, 78>>
      [] name = "ERROR" -> <<69, 82, 82, 79, 82>>

\* fmt.Sprintf(m.Format, m.Args...) for a format without verbs: the format,
\* followed by "%!(EXTRA" when there are arguments.
Sprintf(format, args) ==
    IF args = <<>> THEN format ELSE format \o <<37, 33, 40, 69, 88, 84, 82, 65>>

\* for _, v := range prefs { v.FormatLog(&temp, m) }; temp.String()
\* with prefs = []Formatter{NewFl(), NewCx()}
Prefs(m) == CxFormatLog(FileLineFormatLog(<<>>, m), m)

\* The text MessageTG_t.FormatLog puts together before it looks at TextLimit.
TGText(text, hostname, m) ==
    text \o (IF Len(hostname) > 0 THEN hostname \o StrSpace ELSE <<>>)
         \o Prefs(m)
         \o Bytes(m.Level.Name) \o StrSpace \o Sprintf(m.Format, m.Args)

\* Characters of the messages: "A", U+00E9, U+20AC, U+1F600 and U+FFFD, encoded.
Chars == {<<65>>, <<195, 169>>, <<226, 130, 172>>, <<240, 159, 152, 128>>, <<239, 191, 189>>}

\* The well-formed strings of at most n characters.
RECURSIVE Strings(_)
Strings(n) ==
    IF n = 0 THEN {<<>>}
    ELSE Strings(n - 1) \cup {s \o c : s \in Strings(n - 1), c \in Chars}

\* The records given to the chat envelope.
TGMsgs ==
    [Level : [Name : {"INFO"}, Ts : {[Second |-> 5]}, File : {<<97>>}, Line : {7}],
     Ctx : {NoContext}, Format : Strings(MaxChars), Args : {<<>>}]

\* self.Text += ... (the host name, the prefs, the level and the message)
TGCompose ==
    /\ tgpc = "compose"
    /\ Text' = TGText(Text, Hostname, msg)
    /\ tgpc' = "limit"
    /\ UNCHANGED <<msg, Hostname, TextLimit, cutN>>
    /\ UNCHANGED <<regvars, setupvars, chainvars, kbvars, stdvars, exvars, queuevars, filevars>>

\* if self.TextLimit > 0 && len(self.Text) > self.TextLimit { n := self.TextLimit
TGLimit ==
    /\ tgpc = "limit"
    /\ IF TextLimit > 0 /\ Len(Text) > TextLimit
       THEN cutN' = TextLimit /\ tgpc' = "loop"
       ELSE cutN' = cutN /\ tgpc' = "encode"
    /\ UNCHANGED <<msg, Hostname, TextLimit, Text>>
    /\ UNCHANGED <<regvars, setupvars, chainvars, kbvars, stdvars, exvars, queuevars, filevars>>

\* One turn of: for ; n > 0; n-- { if r, _ := DecodeLastRuneInString(Text[:n]);
\* r != RuneError { break } }
TGLoop ==
    /\ tgpc = "loop"
    /\ IF cutN > 0 /\ DecodeLastRuneInString(SubSeq(Text, 1, cutN)).r = RuneError
       THEN cutN' = cutN - 1 /\ tgpc' = "loop"
       ELSE cutN' = cutN /\ tgpc' = "cut"
    /\ UNCHANGED <<msg, Hostname, TextLimit, Text>>
    /\ UNCHANGED <<regvars, setupvars, chainvars, kbvars, stdvars, exvars, queuevars, filevars>>

\* self.Text = self.Text[:n]
TGCut ==
    /\ tgpc = "cut"
    /\ Text' = SubSeq(Text, 1, cutN)
    /\ tgpc' = "encode"
    /\ UNCHANGED <<msg, Hostname, TextLimit, cutN>>
    /\ UNCHANGED <<regvars, setupvars, chainvars, kbvars, stdvars, exvars, queuevars, filevars>>

\* json.NewEncoder(out).Encode(self): Text is sent.
TGEncode ==
    /\ tgpc = "encode"
    /\ tgpc' = "done"
    /\ UNCHANGED <<msg, Hostname, TextLimit, Text, cutN>>
    /\ UNCHANGED <<regvars, setupvars, chainvars, kbvars, stdvars, exvars, queuevars, filevars>>

TGNext == TGCompose \/ TGLimit \/ TGLoop \/ TGCut \/ TGEncode

InitTG ==
    /\ NoRegistry
    /\ NoChain
    /\ NoKB
    /\ NoStd
    /\ NoExample
    /\ NoQueue
    /\ NoFile
    /\ msg \in TGMsgs
    /\ Hostname \in {<<>>, <<104>>}
    /\ TextLimit \in 0 .. (Len(TGText(<<>>, Hostname, msg)) + 1)
    /\ Text = <<>>
    /\ cutN = 0
    /\ tgpc = "compose"

\* MessageTG_t.FormatLog on any message of at most MaxChars characters, with
\* any TextLimit up to past the length of the text.
SpecTG == InitTG /\ [][TGNext]_vars

\* ================================================= MessageKB_t.FormatLog
\* strings.HasPrefix(s, prefix)
HasPrefix(s, prefix) == Len(s) >= Len(prefix) /\ SubSeq(s, 1, Len(prefix)) = prefix

\* "json1", "json"
StrJson1 == <<106, 115, 111, 110, 49>>

StrJson == <<106, 115, 111, 110>>

\* Values of m.Args: "v" is a value encoding/json can encode, "chan" one it
\* cannot (a channel, a function, a NaN).
ArgValues == {"v", "chan"}

\* json.Marshal of one value: the error, and the JSON text as a list of tokens.
Marshal(v) == [err |-> v = "chan", json |-> IF v = "chan" THEN <<>> ELSE <<v>>]

\* json.Marshal(m.Args): "null" for no arguments, else the array of the values.
MarshalArgs(args) ==
    IF \E i \in 1 .. Len(args) : Marshal(args[i]).err THEN [err |-> TRUE, json |-> <<>>]
    ELSE IF args = <<>> THEN [err |-> FALSE, json |-> <<"null">>]
    ELSE [err |-> FALSE, json |-> <<"[">> \o args \o <<"]">>]

\* json.Marshal of a string: the string in quotes; it cannot fail.
MarshalString(str) == [err |-> FALSE, json |-> <<34>> \o str \o <<34>>]

\* json.NewEncoder(out).Encode(self.Index): {"index":{"_index":...}} and a newline
ActionLine(self) == [line |-> "action", index |-> self.Index]

\* json.NewEncoder(out).Encode(self): the document with its omitempty fields
DocumentLine(self) ==
    [line |-> "document", Level |-> self.Level, timestamp |-> self.Timestamp,
     Location |-> self.Location, Data |-> self.Data, Message |-> self.Message]

\* m.Format: "json1", "json", "x"
KBFormats == {StrJson1, StrJson, <<120>>}

\* The records given to the bulk-index envelope: up to two arguments.
KBMsgs ==
    [Level : [Name : {"INFO", "ERROR"}, Ts : Times, File : {<<97>>}, Line : {7}],
     Ctx : {NoContext}, Format : KBFormats,
     Args : {<<>>} \cup {<<a>> : a \in ArgValues} \cup {<<a, b>> : a \in ArgValues, b \in ArgValues}]

\* if len(self.Index.Index.Format) > 0 { ...; json.NewEncoder(out).Encode(self.Index) }
KBIndex ==
    /\ kbpc = "index"
    /\ LET named == [kbSelf EXCEPT !.Index = AppendFormat(msg.Level.Ts, IndexFormat)]
       IN IF Len(IndexFormat) > 0
          THEN kbSelf' = named /\ kbOut' = Append(kbOut, ActionLine(named))
          ELSE UNCHANGED <<kbSelf, kbOut>>
    /\ kbpc' = "marshal"
    /\ UNCHANGED <<msg, IndexFormat, kbErr>>
    /\ UNCHANGED <<regvars, setupvars, chainvars, tgvars, stdvars, exvars, queuevars, filevars>>

\* self.Level = m.Level.Name and the three ways to Data or Message; an error of
\* json.Marshal ends FormatLog.
KBMarshal ==
    /\ kbpc = "marshal"
    /\ LET data == HasPrefix(msg.Format, StrJson1) /\ Len(msg.Args) > 0
           all == ~data /\ HasPrefix(msg.Format, StrJson)
           res == IF data THEN Marshal(msg.Args[1])
                  ELSE IF all THEN MarshalArgs(msg.Args)
                  ELSE MarshalString(Bytes(msg.Level.Name) \o StrSpace
                                         \o Sprintf(msg.Format, msg.Args))
       IN /\ kbSelf' = IF data \/ all
                       THEN [kbSelf EXCEPT !.Level = msg.Level.Name, !.Data = res.json]
                       ELSE [kbSelf EXCEPT !.Level = msg.Level.Name, !.Message = res.json]
          /\ kbErr' = res.err
          /\ kbpc' = IF res.err THEN "done" ELSE "encode"
    /\ UNCHANGED <<msg, IndexFormat, kbOut>>
    /\ UNCHANGED <<regvars, setupvars, chainvars, tgvars, stdvars, exvars, queuevars, filevars>>

\* self.Timestamp, self.Location and err = json.NewEncoder(out).Encode(self)
KBEncode ==
    /\ kbpc = "encode"
    /\ LET full == [kbSelf EXCEPT !.Timestamp = AppendFormat(msg.Level.Ts, <<84, 53>>),
                                  !.Location = Prefs(msg)]
       IN kbSelf' = full /\ kbOut' = Append(kbOut, DocumentLine(full))
    /\ kbpc' = "done"
    /\ UNCHANGED <<msg, IndexFormat, kbErr>>
    /\ UNCHANGED <<regvars, setupvars, chainvars, tgvars, stdvars, exvars, queuevars, filevars>>

KBNext == KBIndex \/ KBMarshal \/ KBEncode

InitKB ==
    /\ NoRegistry
    /\ NoChain
    /\ NoTG
    /\ NoStd
    /\ NoExample
    /\ NoQueue
    /\ NoFile
    /\ msg \in KBMsgs
    /\ IndexFormat \in {<<>>, <<108, 53>>}
    /\ kbSelf = EmptyKB
    /\ kbOut = <<>>
    /\ kbErr = FALSE
    /\ kbpc = "index"

\* MessageKB_t.FormatLog on any record, with and without an index Format.
SpecKB == InitKB /\ [][KBNext]_vars

\* ================================================ the process-wide logger
\* Number of SetLogger calls.
MaxSets == 2

\* The loggers SetLogger is called with.
Loggers == {"l1", "l2"}

\* The registry of the instance std is initialized with:
\* New().AddOutput("stderr", NewStdany(..., os.Stderr), WhatLevel(0))
DefaultOut == SetupAddOutput([i \in Slots |-> <<>>], "stderr", "stderr", WhatLevel(0))

\* The other variables of SetupLogger stay as they are.
SetupIdle == UNCHANGED <<stage, logs, sout, reported, lastLevels, debugTo>>

\* SetLogger(logger): std = logger, a plain assignment to the package
\* variable.  The goroutine that wrote it reads its own write from then on.
SetLogger(p) ==
    /\ fcall[p] = "idle"
    /\ Len(stdHist) <= MaxSets
    /\ \E l \in Loggers :
        /\ std' = l
        /\ stdHist' = Append(stdHist, l)
    /\ stdView' = [stdView EXCEPT ![p] = Len(stdHist) + 1]
    /\ SetupIdle
    /\ UNCHANGED <<fcall, began, readAt>>
    /\ UNCHANGED <<regvars, msg, chainvars, tgvars, kbvars, exvars, queuevars, filevars>>

\* A goroutine calls GetLogger or one of Error .. Trace, ErrorCtx .. TraceCtx.
FreeCall(p) ==
    /\ fcall[p] = "idle"
    /\ \E f \in {"get", "log"} : fcall' = [fcall EXCEPT ![p] = f]
    /\ began' = [began EXCEPT ![p] = Len(stdHist)]
    /\ UNCHANGED <<stdHist, stdView, readAt>>
    /\ UNCHANGED <<regvars, setupvars, msg, chainvars, tgvars, kbvars, exvars, queuevars, filevars>>

\* The read of std in "std.Error(format, args...)" and in "return std": a plain
\* read that nothing orders after the writes of other goroutines, so it sees
\* the latest write or an earlier one the goroutine has not yet read past.
FreeRead(p) ==
    /\ fcall[p] \in {"get", "log"}
    /\ \E i \in stdView[p] .. Len(stdHist) :
        /\ readAt' = [readAt EXCEPT ![p] = i]
        /\ stdView' = [stdView EXCEPT ![p] = i]
    /\ fcall' = [fcall EXCEPT ![p] = IF fcall[p] = "get" THEN "got" ELSE "dispatch"]
    /\ UNCHANGED <<stdHist, began>>
    /\ UNCHANGED <<regvars, setupvars, msg, chainvars, tgvars, kbvars, exvars, queuevars, filevars>>

\* The logger the call of goroutine p has read from std.
Via(p) == stdHist[readAt[p]]

\* The method call on the logger that was read, or the return of GetLogger.
FreeReturn(p) ==
    /\ fcall[p] \in {"got", "dispatch"}
    /\ fcall' = [fcall EXCEPT ![p] = "idle"]
    /\ UNCHANGED <<stdHist, stdView, began, readAt>>
    /\ UNCHANGED <<regvars, setupvars, msg, chainvars, tgvars, kbvars, exvars, queuevars, filevars>>

StdNext == \E p \in Procs : SetLogger(p) \/ FreeCall(p) \/ FreeRead(p) \/ FreeReturn(p)

InitStd ==
    /\ NoRegistry
    /\ NoMsg
    /\ NoChain
    /\ NoTG
    /\ NoKB
    /\ NoStd
    /\ NoExample
    /\ NoQueue
    /\ NoFile

\* Goroutines that call SetLogger, GetLogger and the free functions in any order.
SpecStd == InitStd /\ [][StdNext]_vars

\* ======================================================= the example
\* Number of Debug calls of the example.
MaxDebugs == 2

\* NewStdout(datetime): the layout datetime() formats the time with; a
\* non-empty datetime gets a space appended.
NewStdoutSpace(datetime) == [Layout |-> datetime \o StrSpace]

NewStdout(datetime) ==
    [Layout |-> IF Len(datetime) > 0 THEN datetime \o StrSpace ELSE datetime]

\* Stdout_t.Write(level, format, args...):
\* fmt.Fprintf(os.Stdout, self.datetime() + level + " " + format + "\n", args...)
StdoutWrite(self, now, level, format, args) ==
    Sprintf(AppendFormat(now, self.Layout) \o level \o StrSpace \o format \o <<10>>, args)

\* log_t.AddOutput(name, writer, level) with no other goroutine at the logger:
\* add_output on the slot of every entry of level.
AddOutput(o, name, writer, level) ==
    [v \in Slots |-> IF v \in SeqToSet(level) THEN Bind(o[v], name, writer) ELSE o[v]]

\* Messages: "la", "bu"
ExMessages == {<<108, 97>>, <<98, 117>>}

\* The lists of at most n messages.
RECURSIVE MessageLists(_)
MessageLists(n) ==
    IF n = 0 THEN {<<>>}
    ELSE MessageLists(n - 1)
             \cup {Append(l, m) : l \in {k \in MessageLists(n - 1) : Len(k) = n - 1},
                                  m \in ExMessages}

\* The example's inputs: the stdout sink's timestamp layout, the level (0 for
\* TRACE .. 4 for ERROR) each sink is registered at, and the messages logged.
ExArgs ==
    [datetime : {<<>>, <<53>>},
     level : [{"stdout", "file", "http"} -> {0, 2, 4}],
     msgs : MessageLists(MaxDebugs)]

\* The sinks of the example, by name, in the order they are registered.
ExSinks == <<"stdout", "file", "http">>

\* logger := NewEmpty()
ExNew ==
    /\ expc = "new"
    /\ exOut' = [i \in Slots |-> <<>>]
    /\ expc' = "add1"
    /\ UNCHANGED <<exArgs, exKeys, exDone, stdoutLines, otherWrites>>
    /\ UNCHANGED <<regvars, setupvars, msg, chainvars, tgvars, kbvars, stdvars, queuevars, filevars>>

\* logger.AddOutput("stdout", ...), then "file", then "http"
ExAddOutput ==
    /\ expc \in {"add1", "add2", "add3"}
    /\ LET i == CASE expc = "add1" -> 1 [] expc = "add2" -> 2 [] expc = "add3" -> 3
           name == ExSinks[i]
       IN /\ exOut' = AddOutput(exOut, name, name, Severities[exArgs.level[name] + 1].Levels)
          /\ expc' = CASE i = 1 -> "add2" [] i = 2 -> "add3" [] i = 3 -> "set"
    /\ UNCHANGED <<exArgs, exKeys, exDone, stdoutLines, otherWrites>>
    /\ UNCHANGED <<regvars, setupvars, msg, chainvars, tgvars, kbvars, stdvars, queuevars, filevars>>

\* SetLogger(logger), by the main goroutine p1
ExSetLogger ==
    /\ expc = "set"
    /\ std' = "example"
    /\ stdHist' = Append(stdHist, "example")
    /\ stdView' = [stdView EXCEPT !["p1"] = Len(stdHist) + 1]
    /\ expc' = "debug"
    /\ SetupIdle
    /\ UNCHANGED <<fcall, began, readAt>>
    /\ UNCHANGED <<exArgs, exOut, exKeys, exDone, stdoutLines, otherWrites>>
    /\ UNCHANGED <<regvars, msg, chainvars, tgvars, kbvars, queuevars, filevars>>

\* The registry of a logger std may hold.
OutOf(l) == IF l = "example" THEN exOut ELSE DefaultOut

\* Debug(msg): std.Debug, which loads the map of LOG_DEBUG.Levels[0]; the call
\* returns at once when the map is empty.
ExDebug ==
    /\ expc = "debug"
    /\ exDone < Len(exArgs.msgs)
    /\ \E i \in stdView["p1"] .. Len(stdHist) :
        LET m == OutOf(stdHist[i])[LOG_DEBUG.Levels[1]]
        IN /\ exKeys' = DOMAIN m
           /\ expc' = IF DOMAIN m = {} THEN "debug" ELSE "range"
           /\ exDone' = IF DOMAIN m = {} THEN exDone + 1 ELSE exDone
    /\ UNCHANGED <<exArgs, exOut, stdoutLines, otherWrites>>
    /\ UNCHANGED <<regvars, setupvars, msg, chainvars, tgvars, kbvars, stdvars, queuevars, filevars>>

\* One turn of the range loop of log_t.Debug: the sink's Write, in the order
\* the map iteration gives; the call returns after the last sink.
ExWrite ==
    /\ expc = "range"
    /\ \E n \in exKeys :
        /\ exKeys' = exKeys \ {n}
        /\ stdoutLines' =
              IF n = "stdout"
              THEN Append(stdoutLines,
                          StdoutWrite(NewStdout(exArgs.datetime), [Second |-> 5],
                                      Bytes(LOG_DEBUG.Name), exArgs.msgs[exDone + 1], <<>>))
              ELSE stdoutLines
        /\ otherWrites' = IF n \in DOMAIN otherWrites
                          THEN [otherWrites EXCEPT ![n] = @ + 1] ELSE otherWrites
        /\ expc' = IF exKeys = {n} THEN "debug" ELSE "range"
        /\ exDone' = IF exKeys = {n} THEN exDone + 1 ELSE exDone
    /\ UNCHANGED <<exArgs, exOut>>
    /\ UNCHANGED <<regvars, setupvars, msg, chainvars, tgvars, kbvars, stdvars, queuevars, filevars>>

\* The end of the example.
ExReturn ==
    /\ expc = "debug"
    /\ exDone = Len(exArgs.msgs)
    /\ expc' = "done"
    /\ UNCHANGED <<exArgs, exOut, exKeys, exDone, stdoutLines, otherWrites>>
    /\ UNCHANGED <<regvars, setupvars, msg, chainvars, tgvars, kbvars, stdvars, queuevars, filevars>>

ExNext == ExNew \/ ExAddOutput \/ ExSetLogger \/ ExDebug \/ ExWrite \/ ExReturn

InitExample ==
    /\ NoRegistry
    /\ NoMsg
    /\ NoChain
    /\ NoTG
    /\ NoKB
    /\ stdHist = <<"default">>
    /\ stdView = [p \in Procs |-> 1]
    /\ fcall = [p \in Procs |-> "idle"]
    /\ began = [p \in Procs |-> 1]
    /\ readAt = [p \in Procs |-> 1]
    /\ exArgs \in ExArgs
    /\ exOut = [i \in Slots |-> <<>>]
    /\ expc = "new"
    /\ exKeys = {}
    /\ exDone = 0
    /\ stdoutLines = <<>>
    /\ otherWrites = [n \in {"file", "http"} |-> 0]
    /\ NoQueue
    /\ NoFile

\* The example: three sinks registered on a new logger, the logger installed,
\* and up to MaxDebugs messages logged with Debug.
SpecExample == InitExample /\ [][ExNext]_vars

\* ======================================================= the async queue
\* The queue's fixed capacity.
MaxQueue == 2

\* Number of enqueue calls.
MaxRecords == 3

\* The queue is full: enqueue blocks the caller or fails.
Full(q) == Len(q) >= MaxQueue

\* enqueue(record) in drop mode, and in block mode once there is room: the
\* record goes to the end of the queue, or, on a full queue in drop mode, the
\* call fails at once and the enqueue-error counter goes up.  In block mode a
\* call on a full queue waits.  The records are numbered in the order of the calls.
Enqueue ==
    /\ qMode \in {"drop", "block"}
    /\ Len(qTried) < MaxRecords
    /\ qMode = "block" => ~Full(queue)
    /\ LET r == Len(qTried) + 1
           ok == ~Full(queue)
       IN /\ queue' = IF ok THEN Append(queue, r) ELSE queue
          /\ qErrors' = IF ok THEN qErrors ELSE qErrors + 1
          /\ qTried' = Append(qTried, [depth |-> Len(queue), accepted |-> ok])
    /\ UNCHANGED <<qMode, qSingle, qHeld, qSunk, qWriteErrors, qTaken>>
    /\ UNCHANGED <<regvars, setupvars, msg, chainvars, tgvars, kbvars, stdvars, exvars, filevars>>

\* A worker takes the oldest record; with a sink that does not tolerate
\* concurrent writes only while no other worker holds one.
Dequeue(w) ==
    /\ qMode \in {"drop", "block"}
    /\ qHeld[w] = 0
    /\ queue # <<>>
    /\ qSingle => \A v \in Workers : qHeld[v] = 0
    /\ qHeld' = [qHeld EXCEPT ![w] = Head(queue)]
    /\ queue' = Tail(queue)
    /\ qTaken' = Append(qTaken, Head(queue))
    /\ UNCHANGED <<qMode, qSingle, qSunk, qErrors, qWriteErrors, qTried>>
    /\ UNCHANGED <<regvars, setupvars, msg, chainvars, tgvars, kbvars, stdvars, exvars, filevars>>

\* The worker formats the record it holds and hands it to the wrapped sink; a
\* failure is counted as a write error and the record is discarded.
Deliver(w) ==
    /\ qHeld[w] # 0
    /\ qSunk' = Append(qSunk, qHeld[w])
    /\ qHeld' = [qHeld EXCEPT ![w] = 0]
    /\ \E failed \in BOOLEAN : qWriteErrors' = IF failed THEN qWriteErrors + 1 ELSE qWriteErrors
    /\ UNCHANGED <<qMode, qSingle, queue, qErrors, qTried, qTaken>>
    /\ UNCHANGED <<regvars, setupvars, msg, chainvars, tgvars, kbvars, stdvars, exvars, filevars>>

QueueNext == Enqueue \/ \E w \in Workers : Dequeue(w) \/ Deliver(w)

InitQueue ==
    /\ NoRegistry
    /\ NoMsg
    /\ NoChain
    /\ NoTG
    /\ NoKB
    /\ NoStd
    /\ NoExample
    /\ qMode \in {"drop", "block"}
    /\ qSingle \in BOOLEAN
    /\ EmptyQueue
    /\ NoFile

\* A queue of capacity MaxQueue in either mode, MaxRecords enqueue calls and
\* two workers draining it into the wrapped sink.
SpecQueue == InitQueue /\ [][QueueNext]_vars

\* ================================================ the rotating file sink
\* The size limit of the file, in bytes.
SizeLimit == 3

\* The backup limit.
BackupLimit == 2

\* Number of files the sink may open after the first.
MaxRolls == 4

\* Number of failures of the file system the sink may meet.
MaxWriteErrors == 2

\* The outcomes of an operation on the file system: success, or failure.
Outcomes == IF fWriteErrors < MaxWriteErrors THEN BOOLEAN ELSE {TRUE}

\* As OverLimit, with the comparison off by one.
OverLimitByTwo(backups) == Len(backups) > BackupLimit + 1

\* After a roll: the number of backup files exceeds the configured limit.
OverLimit(backups) == Len(backups) > BackupLimit

\* write(bytes): if the write would make the count exceed the size limit the
\* sink rolls first.
FileWrite ==
    /\ frpc = "idle"
    /\ \E n \in 1 .. (SizeLimit + 1) :
        LET over == fSize + n > SizeLimit
        IN /\ over => fCurrent <= MaxRolls
           /\ fPending' = n
           /\ fLast' = [over |-> over, rolls |-> 0]
           /\ frpc' = IF over THEN "roll" ELSE "append"
    /\ UNCHANGED <<fSize, fCurrent, fBackups, fWriteErrors, fPruneFailed>>
    /\ UNCHANGED <<regvars, setupvars, msg, chainvars, tgvars, kbvars, stdvars, exvars, queuevars>>

\* The roll: close the current file, archive it as a backup, open a fresh
\* file, reset the count.  A failure to roll is recorded as a write error and
\* the sink keeps appending to the file it has.
FileRoll ==
    /\ frpc = "roll"
    /\ fLast' = [fLast EXCEPT !.rolls = @ + 1]
    /\ \E ok \in Outcomes :
        IF ok
        THEN /\ fBackups' = Append(fBackups, fCurrent)
             /\ fCurrent' = fCurrent + 1
             /\ fSize' = 0
             /\ fPruneFailed' = FALSE
             /\ frpc' = "prune"
             /\ UNCHANGED fWriteErrors
        ELSE /\ fWriteErrors' = fWriteErrors + 1
             /\ frpc' = "append"
             /\ UNCHANGED <<fBackups, fCurrent, fSize, fPruneFailed>>
    /\ UNCHANGED fPending
    /\ UNCHANGED <<regvars, setupvars, msg, chainvars, tgvars, kbvars, stdvars, exvars, queuevars>>

\* Backup retention after a roll: delete the oldest backup while there are
\* more than the limit.  A failure to delete is recorded as a write error and
\* the sink goes on with the write.
FilePrune ==
    /\ frpc = "prune"
    /\ IF OverLimit(fBackups)
       THEN \E ok \in Outcomes :
               IF ok
               THEN /\ fBackups' = Tail(fBackups)
                    /\ UNCHANGED <<fWriteErrors, fPruneFailed, frpc>>
               ELSE /\ fWriteErrors' = fWriteErrors + 1
                    /\ fPruneFailed' = TRUE
                    /\ frpc' = "append"
                    /\ UNCHANGED fBackups
       ELSE /\ frpc' = "append"
            /\ UNCHANGED <<fBackups, fWriteErrors, fPruneFailed>>
    /\ UNCHANGED <<fSize, fCurrent, fPending, fLast>>
    /\ UNCHANGED <<regvars, setupvars, msg, chainvars, tgvars, kbvars, stdvars, exvars, queuevars>>

\* The write itself, to the current file.
FileAppend ==
    /\ frpc = "append"
    /\ fSize' = fSize + fPending
    /\ fPending' = 0
    /\ frpc' = "idle"
    /\ UNCHANGED <<fCurrent, fBackups, fWriteErrors, fLast, fPruneFailed>>
    /\ UNCHANGED <<regvars, setupvars, msg, chainvars, tgvars, kbvars, stdvars, exvars, queuevars>>

FileNext == FileWrite \/ FileRoll \/ FilePrune \/ FileAppend

InitFile ==
    /\ NoRegistry
    /\ NoMsg
    /\ NoChain
    /\ NoTG
    /\ NoKB
    /\ NoStd
    /\ NoExample
    /\ NoQueue
    /\ NewFile
    /\ frpc = "idle"

\* A size-rotated file sink with size limit SizeLimit and backup limit
\* BackupLimit, written to with writes of any size up to past the limit.
SpecFile == InitFile /\ [][FileNext]_vars

\* ================================================================ claims
UpwardClosed(ls) == \A i \in ls : \A j \in Slots : j > i => j \in ls

\* The goroutines about to call writer.Close() in del_output.
Closing == {p \in Procs : pc[p] = "del_close"}

\* The goroutines inside the range loop of a dispatch method.
Ranging == {p \in Procs : pc[p] = "log_write"}

\* C1: DelOutput invokes Close on a registered sink exactly once in total, not
\* once per level slot, also when several DelOutput calls run concurrently: no
\* Close is ever invoked on a sink that was already closed since its
\* registration.
C1_CloseOnce == \A p \in Closing : ~closed[found[p]]

\* C2: at the moment Close is invoked on a sink the sink is in the published
\* map of none of the five slots, and a dispatch that loads its map after the
\* Close was invoked never calls WriteLevel on the sink.
C2_CloseAfterRemoval ==
    /\ \A p \in Closing : SinkLevels(found[p]) = {}
    /\ \A p \in Ranging : \A n \in Unvisited(p) : snap[p][n] \notin closedAtLoad[p]

\* The threshold scenario: p1's AddOutput("a", w1, LOG_T.Levels) has returned.
Registered == Len(script["p1"]) < 5 \/ (Len(script["p1"]) = 5 /\ pc["p1"] = "idle")

\* The level names of the severities of ranks k - 1 .. n - 1, in order.
RECURSIVE NamesBetween(_, _)
NamesBetween(k, n) == IF k > n THEN <<>> ELSE <<Severities[k].Name>> \o NamesBetween(k + 1, n)

\* The dispatch methods p1 has completed: 5 less the ones still to call or running.
Logged == 5 - Len(script["p1"]) - (IF pc["p1"] = "idle" THEN 0 ELSE 1)

\* The records that have reached the sink: those of the completed dispatch
\* methods, and that of the running one once its loop has visited the sink.
Reached == IF pc["p1"] = "log_write" /\ "a" \in visited["p1"] THEN Logged + 1 ELSE Logged

\* C3: once AddOutput(name, sink, LOG_T.Levels) has returned on a registry
\* without the name, the sink is in the map the dispatch method of a severity
\* loads exactly for the severities >= T, and records logged at TRACE, DEBUG,
\* INFO, WARN, ERROR in that order reach the sink's WriteLevel once each for the
\* severities >= T, with the level's name, in that order.
C3_ThresholdDelivery ==
    Registered =>
        /\ \A k \in Ranks : (watch \in Values(out[Severities[k].Levels[1]])) <=> (k >= threshold)
        /\ wlog = NamesBetween(threshold, Reached)

\* C3 witness: all five records are logged and the sink has got its share.
C3_Witness ==
    /\ threshold = 4
    /\ script["p1"] = <<>> /\ pc["p1"] = "idle"
    /\ wlog = <<"WARN", "ERROR">>

\* C4: what a dispatch ranges over is the whole map its slot held at the one
\* instant of its load, whatever was registered, removed or cleared since: a
\* published map is never modified.
C4_SnapshotAtomic ==
    \A p \in Ranging : snap[p] = seen[p] /\ (cur[p] => snap[p] = out[SlotOf(p)])

\* C4 witness: a dispatch is in its range loop over a map that the slot no
\* longer holds and that differs from the one the slot holds now.
C4_Witness == \E p \in Ranging : ~cur[p] /\ snap[p] # out[SlotOf(p)]

\* C5: a dispatch that starts after AddOutput(name, sink, levels) returned, and
\* before any later change to the name, delivers to the sink at every severity
\* in levels; one that starts after DelOutput(name) or Clear returned, and
\* before any later add, delivers to it at none.
C5_Linearizable ==
    \A n \in Names :
        /\ stable[n] = "add" => \A i \in lastAdd[n].levels : out[i][n] = lastAdd[n].writer
        /\ stable[n] = "gone" => BoundLevels(n) = {}

\* C6: when no registry call is in progress every name is bound to one sink in
\* all the slots it appears in, and it appears in exactly the slots of the most
\* recent AddOutput for it.
C6_NameIsKey ==
    Idle => \A n \in Names :
        BoundLevels(n) # {} =>
            /\ \A i, j \in BoundLevels(n) : out[i][n] = out[j][n]
            /\ BoundLevels(n) = lastAdd[n].levels

\* C7: in every state, also part-way through AddOutput or DelOutput, a sink that
\* is in the map of a severity is in the map of every higher severity.
C7_UpwardClosed == \A w \in Writers : UpwardClosed(SinkLevels(w))

\* C8: a DelOutput for a name that is in no slot (a second DelOutput, or a name
\* never registered) and a Clear of an empty registry leave the sinks of every
\* slot as they are and invoke Close on no sink.
C8_RemovalIdempotent == \A p \in Procs : startAbsent[p] => ~touched[p]

\* C8 witness: a DelOutput or Clear that began on a registry without the name
\* has gone through all five slots and returned, while a sink is registered.
C8_Witness ==
    \E p \in Procs :
        /\ pc[p] = "idle" /\ startAbsent[p] /\ ~touched[p]
        /\ \E n \in Names : BoundLevels(n) # {}

\* The entries the first loop has gone through.
Handled == 1 .. Len(logs)

\* C9 as stated: an entry whose constructor fails is reported to Stderr and not
\* registered, and every other entry of a known kind is registered at
\* WhatLevel(LogLevel) in the logger SetupLogger installed.
C9_EveryOtherEntryRegistered ==
    \A i \in Handled :
        /\ Reports(logs[i]) => i \in reported /\ EntrySlots(i) = {}
        /\ ~Reports(logs[i]) /\ logs[i].LogType # "syslog" =>
              EntrySlots(i) = LevelSlots(WhatLevel(logs[i].LogLevel))

\* The slots that later entries registered under the same name have taken.
TakenOver(i) ==
    UNION {LevelSlots(WhatLevel(logs[j].LogLevel)) :
              j \in {k \in Handled : /\ k > i
                                     /\ ~Reports(logs[k]) /\ logs[k].LogType # "syslog"
                                     /\ OutputName(logs[k]) = OutputName(logs[i])}}

\* C9, amended: an entry whose constructor fails is reported to Stderr and not
\* registered, and every other entry of a known kind is registered in the
\* logger SetupLogger installed at the levels of WhatLevel(LogLevel) that no
\* later entry registered under the same name has taken; a failure ends neither
\* the loop nor an earlier registration.
C9_FailureIsSkipped ==
    /\ stage # "new" => std = "setup"
    /\ reported \subseteq {i \in Handled : Reports(logs[i])}
    /\ \A i \in Handled :
        /\ Reports(logs[i]) => i \in reported /\ EntrySlots(i) = {}
        /\ ~Reports(logs[i]) /\ logs[i].LogType # "syslog" =>
              EntrySlots(i) = LevelSlots(WhatLevel(logs[i].LogLevel)) \ TakenOver(i)

\* C9 witness: SetupLogger has returned; the constructor of one entry failed
\* and the sink of another entry is registered.
C9_Witness ==
    /\ stage = "done"
    /\ \E i, j \in Handled : Reports(logs[j]) /\ EntrySlots(i) # {}

\* C10: for every integer n, WhatLevel(n) is exactly the set of the severities
\* of rank >= n (TRACE = 0 .. ERROR = 4), for n in 0 .. 4, below 0 and above 4.
C10_WhatLevelIsThreshold ==
    lastLevels # <<>> =>
        {lastLevels[i].Name : i \in 1 .. Len(lastLevels)}
            = {Severities[k].Name : k \in {r \in Ranks : r - 1 >= logs[Len(logs)].LogLevel}}

\* The output the chain is to give for a part: the part and one space, or
\* nothing at all for an empty part.
Delimited(part) == IF part = <<>> THEN <<>> ELSE part \o StrSpace

\* The call site of a record as "base file name:line", empty without a file name.
CallSite(m) ==
    IF m.Level.File = <<>> THEN <<>>
    ELSE Base(m.Level.File) \o StrColon \o FormatInt(m.Level.Line)

\* The name of the record's correlation context, empty without one.
ContextNameOf(m) == IF m.Ctx.set THEN m.Ctx.ContextName ELSE <<>>

\* C12: the output of the chain is the timestamp, the call site (base file
\* name:line) and the context's name, in that order, each followed by one
\* space, and a part that is empty (empty layout, empty file name, no context)
\* contributes no byte, neither output nor delimiter.
C12_ChainConcatenates ==
    fpc = 4 =>
        buf = Delimited(AppendFormat(msg.Level.Ts, Layout))
                  \o Delimited(CallSite(msg))
                  \o Delimited(ContextNameOf(msg))

\* The text the chat envelope was given to send.
FullText == TGText(<<>>, Hostname, msg)

\* Offset i of a well-formed string is between two characters.
AtBoundary(s, i) == i = 0 \/ i = Len(s) \/ s[i + 1] \div 64 # 2

\* s is a sequence of whole characters of one to four bytes.
RECURSIVE WellFormed(_)
WellFormed(s) ==
    \/ s = <<>>
    \/ \E k \in 1 .. 4 :
          /\ k <= Len(s)
          /\ (k = 1 /\ s[1] < 128) \/ (SubSeq(s, 1, k) \in Chars)
          /\ WellFormed(SubSeq(s, k + 1, Len(s)))

\* C11: with TextLimit > 0, a text of at most TextLimit bytes is sent as it is;
\* a longer one is sent as a prefix of at most TextLimit bytes that ends
\* between two characters, and if offset TextLimit is inside a character the
\* sent text is shorter than TextLimit and well-formed.
C11_TruncatesAtBoundary ==
    tgpc = "done" /\ TextLimit > 0 =>
        /\ Len(FullText) <= TextLimit => Text = FullText
        /\ Len(FullText) > TextLimit =>
              /\ Len(Text) <= TextLimit
              /\ Text = SubSeq(FullText, 1, Len(Text))
              /\ AtBoundary(FullText, Len(Text))
              /\ WellFormed(Text)
              /\ ~AtBoundary(FullText, TextLimit) => Len(Text) < TextLimit

\* C11 witness: a text was cut where TextLimit is inside a character of three
\* or four bytes, and what was sent ends in a character of several bytes.
C11_Witness ==
    /\ tgpc = "done" /\ TextLimit > 0
    /\ Len(FullText) > TextLimit
    /\ ~AtBoundary(FullText, TextLimit)
    /\ TextLimit - Len(Text) >= 2
    /\ Text # <<>> /\ Text[Len(Text)] >= 128

\* C13: with a non-empty index Format, what FormatLog has written when it
\* returns is one action-descriptor line followed by one document line, the
\* document carrying exactly one of Data and Message; also when FormatLog
\* returns the error of a failed json.Marshal, no action-descriptor line is
\* left without its document line.
C13_ActionThenDocument ==
    kbpc = "done" /\ IndexFormat # <<>> =>
        /\ Len(kbOut) = 2
        /\ kbOut[1].line = "action"
        /\ kbOut[2].line = "document"
        /\ (kbOut[2].Data = <<>>) # (kbOut[2].Message = <<>>)

\* C15: the instance std starts with has one sink, "stderr", in the map of
\* each of the five levels; and a free function or GetLogger called after
\* SetLogger(l) returned uses l (or a logger installed later still), never an
\* instance installed before l.
C15_DefaultLogger ==
    /\ Len(stdHist) = 1 =>
          std = "default" /\ \A v \in Slots : DOMAIN DefaultOut[v] = {"stderr"}
    /\ \A p \in Procs : fcall[p] \in {"got", "dispatch"} => readAt[p] >= began[p]

\* The line the example expects for a message: "DEBUG <msg>" and a newline.
DebugLine(m) == <<68, 69, 66, 85, 71, 32>> \o m \o <<10>>

\* C14: with the stdout sink built with an empty timestamp layout and
\* registered at level 0, next to a file and an http sink at any levels, each
\* Debug(msg) after SetLogger writes one line "DEBUG <msg>" to stdout, without
\* a timestamp, in the order of the calls: none dropped, doubled or moved.
C14_ExampleOutput ==
    expc # "off" /\ exArgs.datetime = <<>> /\ exArgs.level["stdout"] = 0 =>
        /\ Len(stdoutLines) >= exDone
        /\ Len(stdoutLines) <= exDone + (IF expc = "range" THEN 1 ELSE 0)
        /\ expc = "range" => (Len(stdoutLines) = exDone <=> "stdout" \in exKeys)
        /\ \A i \in 1 .. Len(stdoutLines) : stdoutLines[i] = DebugLine(exArgs.msgs[i])

\* C14 witness: the example has logged "la" and then "bu" with the file and
\* http sinks in the map of DEBUG as well, and both sinks were written to.
C14_Witness ==
    /\ expc = "done"
    /\ exArgs.datetime = <<>> /\ exArgs.level["stdout"] = 0
    /\ exArgs.msgs = <<<<108, 97>>, <<98, 117>>>>
    /\ Len(stdoutLines) = 2
    /\ otherWrites["file"] = 2 /\ otherWrites["http"] = 2

\* The records the queue accepted, in the order it accepted them.
Accepted == SelectSeq([i \in 1 .. Len(qTried) |-> i], LAMBDA i : qTried[i].accepted)

IsPrefix(a, b) == Len(a) <= Len(b) /\ a = SubSeq(b, 1, Len(a))

\* C16: the depth never exceeds the capacity; an enqueue on a full queue in
\* drop mode is rejected, adds one to the enqueue-error counter and leaves the
\* queued records as they are; the accepted records are handed to the wrapped
\* sink in the order they were accepted.
C16_BoundedFifo ==
    /\ Len(queue) <= MaxQueue
    /\ \A i \in 1 .. Len(qTried) : qTried[i].accepted <=> qTried[i].depth < MaxQueue
    /\ qErrors = Cardinality({i \in 1 .. Len(qTried) : ~qTried[i].accepted})
    /\ qTaken \o queue = Accepted
    /\ IsPrefix(qSunk, Accepted)

\* The backups created so far: every file opened before the current one.
Created == fCurrent - 1

\* The n most recently created backups, oldest first.
MostRecent(n) == [i \in 1 .. n |-> Created - n + i]

Min(a, b) == IF a < b THEN a ELSE b

AllReturned == Idle /\ \A p \in Procs : script[p] = <<>>

\* A slot changes only by the compare-and-swap of a goroutine that is at the
\* slot, only in the binding of the name of that goroutine's call, and no
\* other slot changes with it.
OwnNameOnly ==
    \A i \in Slots :
        out'[i] # out[i] =>
            /\ \E p \in Procs :
                /\ pc[p] \in {"add_cas", "del_cas"}
                /\ SlotOf(p) = i
                /\ Changed(out[i], out'[i]) = {op[p].name}
            /\ \A j \in Slots \ {i} : out'[j] = out[j]

\* The name is as the latest call on it left it: bound to the writer in each
\* of the levels of an AddOutput, bound nowhere after a DelOutput, and as it
\* was when no call was made on it.
Settled(n) ==
    \/ stable[n] = "add" /\ \A i \in lastAdd[n].levels : out[i][n] = lastAdd[n].writer
    \/ stable[n] = "gone" /\ BoundLevels(n) = {}

\* C18: each successful add_output / del_output publishes a map that differs
\* from the one it replaced only in the binding of its own name and leaves the
\* other slots as they are; so when concurrent AddOutput and DelOutput calls on
\* distinct names have all returned, every added name is bound at each of its
\* levels, every deleted name is bound nowhere, and the other names are bound
\* as before.
C18_NoLostUpdates == [][OwnNameOnly]_vars /\ [](AllReturned => \A n \in Names : Settled(n))

\* C18 witness: AddOutput("a", w1, LOG_TRACE.Levels) and DelOutput("b") ran
\* concurrently and have returned: "a" is bound in every slot and "b", bound
\* before, in none.
C18_Witness ==
    /\ AllReturned
    /\ stable["a"] = "add" /\ BoundLevels("a") = Slots
    /\ stable["b"] = "gone" /\ touched["p2"] /\ BoundLevels("b") = {}

\* The goroutines at the compare-and-swap of add_output / del_output.
Swapping == {p \in Procs : pc[p] \in {"add_cas", "del_cas"}}

\* A store into the slot goroutine q is at, by goroutine r: a compare-and-swap
\* that succeeds, or the store of Clear.
StoresAt(r, q) ==
    /\ SlotOf(r) = SlotOf(q)
    /\ \/ r \in Swapping /\ cur[r]
       \/ pc[r] = "clear"
    /\ <<pc[r], idx[r]>>' # <<pc[r], idx[r]>>

\* The pointer a goroutine loaded stops being the one in the slot, which is
\* what makes its compare-and-swap fail, only by a store of another goroutine
\* into that slot.
LostOnlyToUpdate ==
    \A q \in Swapping :
        (cur[q] /\ ~cur'[q] /\ pc'[q] = pc[q]) => \E r \in Procs \ {q} : StoresAt(r, q)

\* C19: a goroutine inside a call always has a step to take, whatever the
\* others are doing (a dispatch is one load and a loop over the loaded map, an
\* update a load and a compare-and-swap per turn); a compare-and-swap fails
\* only because another update of the same slot succeeded in between; and
\* under fair scheduling, with finitely many calls, every call returns.
C19_Progress ==
    /\ [][LostOnlyToUpdate]_vars
    /\ [](\A p \in Procs : pc[p] # "idle" => ENABLED Step(p))
    /\ \A p \in Procs : (pc[p] # "idle") ~> (pc[p] = "idle")

\* C19 witness: the compare-and-swap a goroutine is about to make fails, its
\* pointer being stale, and the loop of add_output / del_output starts over.
C19_Witness == \E p \in Swapping : ~cur[p]

\* C20: WriteLevel is never invoked on a sink after Close was invoked on it:
\* no sink that the range loop of a dispatch is still to call WriteLevel on
\* has been closed, also when the dispatch loaded its map before the
\* compare-and-swap that removed the sink.
C20_NoUseAfterClose == \A p \in Ranging : \A n \in Unvisited(p) : ~closed[snap[p][n]]

\* The sinks that were in a slot once and are in none now.
Dropped == {w \in registered : SinkLevels(w) = {}}

\* C21: when the AddOutput, DelOutput and Clear calls made have all returned,
\* every sink that was registered once and is bound in no slot any more has
\* had Close invoked on it, be it removed by Clear, displaced by a later
\* AddOutput under its name, or removed by a DelOutput that raced with a Clear.
C21_NoLeakedSinks == Idle => \A w \in Dropped : closed[w]

====
